---- MODULE Spec2Model ----
(***************************************************************************)
(* A model of blocks/model.py: Model (graph input resolution, selection,   *)
(* parameter retrieval), Path (string form and parser) and Selector        *)
(* (path resolution and parameter aggregation).                            *)
(*                                                                         *)
(* Strings are sequences of one-character strings, so that the string form *)
(* of a path and the regular-expression split of the parser are computed   *)
(* character by character.                                                 *)
(***************************************************************************)
EXTENDS Integers, Sequences, FiniteSets, TLC

VARIABLES
    \* ---- the expression graph and Model._get_variables ----
    owner,            \* node -> [present, inputs]: the node's owner and owner.inputs
    kind,             \* node -> class of the variable
    variables,        \* Model.variables
    input_variables,  \* Model.input_variables
    stack,            \* the call stack of recursion(): frames [current, idx, inp]
    visits,           \* node -> number of times recursion() was entered on it
    gpc,              \* position of Model.__init__
    \* ---- Path ----
    pathArg,          \* a Path object (its nodes)
    strArg,           \* a string handed to Path.parse
    pathStr,          \* str(pathArg)
    parsed,           \* outcome of Path.parse
    ppc,              \* which Path operation ran last
    \* ---- the brick hierarchy, Selector, Model.select / get_params ----
    brick_name,       \* brick -> name
    children,         \* brick -> sequence of child bricks
    param_name,       \* parameter -> name
    param_owner,      \* parameter -> the brick whose params list holds it
    top_bricks,       \* Model.top_bricks / the Selector's bricks
    call,             \* the last call made: [op, path]
    result            \* its outcome

gvars == <<owner, kind, variables, input_variables, stack, visits, gpc>>
pvars == <<pathArg, strArg, pathStr, parsed, ppc>>
tvars == <<brick_name, children, param_name, param_owner, top_bricks, call, result>>
vars == <<gvars, pvars, tvars>>

-----------------------------------------------------------------------------
(* Bounds *)
NumNodes == 4        \* graph nodes 1..NumNodes; the cost node is NumNodes
MaxInputs == 3       \* longest owner.inputs
MaxNameLen == 1      \* longest name of a path segment handed to str()
MaxPathLen == 3      \* most segments of a Path handed to str()
MaxStrLen == 4       \* longest string handed to Path.parse
NumBricks == 3       \* bricks 1..NumBricks
NumParams == 2       \* parameters 1..NumParams
MaxRoots == 2        \* most top-level bricks
MaxChain == 2        \* most brick segments of a path handed to select

-----------------------------------------------------------------------------
(* Generic helpers *)

\* all sequences over S of length 0..n
SeqsUpTo(S, n) == UNION {[1..k -> S] : k \in 0..n}

Range(s) == {s[i] : i \in 1..Len(s)}

\* the orders in which a set can be iterated
Orderings(S) ==
    {s \in [1..Cardinality(S) -> S] : \A i, j \in 1..Cardinality(S) : s[i] = s[j] => i = j}


-----------------------------------------------------------------------------
(* The expression graph (the Theano interface the code reads) *)

Nodes == 1..NumNodes

\* the designated cost node: Model.cost() returns basic_cost
cost == NumNodes

NoOwner == [present |-> FALSE, inputs |-> <<>>]

Apply(ins) == [present |-> TRUE, inputs |-> ins]

\* classes of graph variables the code tells apart with isinstance
VariableKinds == {"TensorVariable", "SharedVariable", "TensorConstant", "ScalarConstant"}

\* what node n can be: a variable without owner, of any class, or the output of
\* an operation applied to earlier nodes (shared variables and constants have
\* no owner)
NodeChoices(n) ==
    {[own |-> NoOwner, kind |-> k] : k \in VariableKinds}
        \cup {[own |-> Apply(ins), kind |-> "TensorVariable"] :
                  ins \in SeqsUpTo(1..(n - 1), MaxInputs)}

\* the finite acyclic graphs on the nodes 1..n: the inputs of a node's owner
\* have smaller numbers
RECURSIVE GraphsOn(_)
GraphsOn(n) ==
    IF n = 0 THEN {<<>>}
    ELSE {Append(g, c) : g \in GraphsOn(n - 1), c \in NodeChoices(n)}

Graphs == GraphsOn(NumNodes)

\* is_input of Model._get_variables
is_input(variable) ==
    /\ ~owner[variable].present
    /\ ~(kind[variable] = "SharedVariable")
    /\ ~(kind[variable] = "TensorConstant")
    /\ ~(kind[variable] = "ScalarConstant")

\* a fresh activation of recursion(current): the loop has not started, inp is unbound
Unbound == 0

Frame(current) == [current |-> current, idx |-> 0, inp |-> Unbound]

Top == stack[Len(stack)]

Pop == SubSeq(stack, 1, Len(stack) - 1)

\* Model.__init__: stores the bricks and the cost, then _get_variables() resets
\* self.variables and calls recursion(self.cost())
ModelInit ==
    /\ gpc = "new"
    /\ variables' = {}
    /\ stack' = <<Frame(cost)>>
    /\ visits' = [visits EXCEPT ![cost] = @ + 1]
    /\ gpc' = "recursion"
    /\ UNCHANGED <<owner, kind, input_variables>>

\* recursion(current) when current.owner is None: the body is skipped
RecursionLeaf ==
    /\ gpc = "recursion" /\ Len(stack) > 0
    /\ ~owner[Top.current].present
    /\ stack' = Pop
    /\ UNCHANGED <<owner, kind, variables, input_variables, visits, gpc>>

\* one iteration of "for inp in current.owner.inputs" that recurses:
\* inp is not in self.variables
RecursionDescend ==
    /\ gpc = "recursion" /\ Len(stack) > 0
    /\ owner[Top.current].present
    /\ Top.idx < Len(owner[Top.current].inputs)
    /\ LET inp == owner[Top.current].inputs[Top.idx + 1]
       IN  /\ ~(inp \in variables)
           /\ stack' = Append([stack EXCEPT ![Len(stack)] =
                                  [current |-> Top.current, idx |-> Top.idx + 1, inp |-> inp]],
                              Frame(inp))
           /\ visits' = [visits EXCEPT ![inp] = @ + 1]
    /\ UNCHANGED <<owner, kind, variables, input_variables, gpc>>

\* one iteration of the loop on an input that is already in self.variables
RecursionSkip ==
    /\ gpc = "recursion" /\ Len(stack) > 0
    /\ owner[Top.current].present
    /\ Top.idx < Len(owner[Top.current].inputs)
    /\ LET inp == owner[Top.current].inputs[Top.idx + 1]
       IN  /\ inp \in variables
           /\ stack' = [stack EXCEPT ![Len(stack)] =
                           [current |-> Top.current, idx |-> Top.idx + 1, inp |-> inp]]
    /\ UNCHANGED <<owner, kind, variables, input_variables, visits, gpc>>

\* the value the statement after the loop adds to self.variables
AddedAfterLoop(frame) == frame.inp

\* after the loop: self.variables.add(inp), then recursion returns
RecursionAdd ==
    /\ gpc = "recursion" /\ Len(stack) > 0
    /\ owner[Top.current].present
    /\ Top.idx = Len(owner[Top.current].inputs)
    /\ Top.inp # Unbound
    /\ variables' = variables \cup {AddedAfterLoop(Top)}
    /\ stack' = Pop
    /\ UNCHANGED <<owner, kind, input_variables, visits, gpc>>

\* after a loop over no inputs: inp was never bound, the add raises
\* UnboundLocalError and construction fails
RecursionUnbound ==
    /\ gpc = "recursion" /\ Len(stack) > 0
    /\ owner[Top.current].present
    /\ Top.idx = Len(owner[Top.current].inputs)
    /\ Top.inp = Unbound
    /\ gpc' = "UnboundLocalError"
    /\ stack' = <<>>
    /\ UNCHANGED <<owner, kind, variables, input_variables, visits>>

\* recursion(self.cost()) has returned: the list comprehension over the set
\* self.variables, in whatever order the set iterates
CollectInputs ==
    /\ gpc = "recursion" /\ Len(stack) = 0
    /\ input_variables' \in Orderings({v \in variables : is_input(v)})
    /\ gpc' = "done"
    /\ UNCHANGED <<owner, kind, variables, stack, visits>>

\* what the graph specification leaves alone
PathIdle ==
    /\ pathArg = <<>> /\ strArg = <<>> /\ pathStr = <<>>
    /\ parsed = [status |-> "none", nodes |-> <<>>]
    /\ ppc = "idle"

TreeIdle ==
    /\ brick_name = <<>> /\ children = <<>>
    /\ param_name = <<>> /\ param_owner = <<>>
    /\ top_bricks = <<>>
    /\ call = [op |-> "none"]
    /\ result = [type |-> "none"]

GraphIdle ==
    /\ owner = <<>> /\ kind = <<>>
    /\ variables = {} /\ input_variables = <<>>
    /\ stack = <<>> /\ visits = <<>>
    /\ gpc = "idle"

GraphInit ==
    /\ \E g \in Graphs :
          /\ owner = [n \in Nodes |-> g[n].own]
          /\ kind = [n \in Nodes |-> g[n].kind]
    /\ variables = {}
    /\ input_variables = <<>>
    /\ stack = <<>>
    /\ visits = [n \in Nodes |-> 0]
    /\ gpc = "new"
    /\ PathIdle /\ TreeIdle

GraphNext ==
    \/ ModelInit /\ UNCHANGED <<pvars, tvars>>
    \/ RecursionLeaf /\ UNCHANGED <<pvars, tvars>>
    \/ RecursionDescend /\ UNCHANGED <<pvars, tvars>>
    \/ RecursionSkip /\ UNCHANGED <<pvars, tvars>>
    \/ RecursionAdd /\ UNCHANGED <<pvars, tvars>>
    \/ RecursionUnbound /\ UNCHANGED <<pvars, tvars>>
    \/ CollectInputs /\ UNCHANGED <<pvars, tvars>>

SpecGraph == GraphInit /\ [][GraphNext]_vars

-----------------------------------------------------------------------------
(* Properties of Model._get_variables *)

\* the nodes reachable from n by following owner.inputs edges, n included
RECURSIVE ReachableFrom(_)
ReachableFrom(n) ==
    {n} \cup UNION {ReachableFrom(owner[n].inputs[i]) : i \in 1..Len(owner[n].inputs)}

\* a free input: no owning operation, not externally-held state, not a constant
FreeLeaf(n) ==
    /\ ~owner[n].present
    /\ kind[n] \notin {"SharedVariable", "TensorConstant", "ScalarConstant"}

\* C1: after construction, Model.variables is exactly the set of nodes
\* reachable from the cost node, the cost node, internal nodes and leaves
\* included (stated for a cost node that an operation computes).
C1_VariablesIsReachableSet ==
    (gpc = "done" /\ owner[cost].present) => variables = ReachableFrom(cost)

\* C2: after construction, Model.input_variables holds every reachable free
\* leaf exactly once and nothing else, whatever the leaf's position among the
\* inputs of its operation (stated for a cost node that an operation computes).
C2_InputVariablesAreFreeLeaves ==
    (gpc = "done" /\ owner[cost].present) =>
        /\ Range(input_variables) = {n \in ReachableFrom(cost) : FreeLeaf(n)}
        /\ \A i, j \in 1..Len(input_variables) :
               input_variables[i] = input_variables[j] => i = j

\* C9: during the traversal no node is entered by recursion() more than once.
C9_NoNodeVisitedTwice ==
    gpc # "idle" => \A n \in Nodes : visits[n] <= 1

-----------------------------------------------------------------------------
(* Path *)

\* Path.separator, Path.param_separator
separator == "/"

param_separator == "."

\* the characters of names in the model
NameChars == {"a", "b"}

Chars == NameChars \cup {separator, param_separator}

\* Path.BrickName(name), Path.ParamName(name): a str with a class
BrickName(name) == [cls |-> "BrickName", name |-> name]

ParamName(name) == [cls |-> "ParamName", name |-> name]

\* BrickName.part, ParamName.part
part(node) ==
    IF node.cls = "BrickName" THEN <<separator>> \o node.name
    ELSE <<param_separator>> \o node.name

\* Path.__str__: "".join([node.part() for node in self.nodes])
RECURSIVE PathToStr(_)
PathToStr(nodes) ==
    IF nodes = <<>> THEN <<>>
    ELSE part(Head(nodes)) \o PathToStr(Tail(nodes))

\* Path.__add__
PathAdd(p, q) == p \o q

\* Path.__eq__: equality of the node tuples; BrickName and ParamName are str
\* subclasses and compare as strings, so the class of a node does not count
PathEq(p, q) ==
    /\ Len(p) = Len(q)
    /\ \A i \in 1..Len(p) : p[i].name = q[i].name

\* separator_re.split(string): the text before the first separator, then each
\* separator (the pattern has one capturing group) followed by the text up to
\* the next separator
RECURSIVE SplitFrom(_, _, _, _)
SplitFrom(string, i, text, acc) ==
    IF i > Len(string) THEN Append(acc, text)
    ELSE IF string[i] \in {separator, param_separator}
         THEN SplitFrom(string, i + 1, <<>>, acc \o <<text, <<string[i]>>>>)
         ELSE SplitFrom(string, i + 1, Append(text, string[i]), acc)

separator_re_split(string) == SplitFrom(string, 1, <<>>, <<>>)

\* elements[::2] and elements[1::2]
EvenSlice(elements) == [i \in 1..((Len(elements) + 1) \div 2) |-> elements[2 * i - 1]]

OddSlice(elements) == [i \in 1..(Len(elements) \div 2) |-> elements[2 * i]]

\* a dispatch that makes every segment a brick name
NodeForBrickOnly(sep, name) == BrickName(name)

\* the dispatch on the separator in the loop of Path.parse; the second test
\* compares Path.param_separator with itself
NodeFor(sep, name) ==
    IF sep = <<separator>> THEN BrickName(name)
    ELSE IF param_separator = param_separator THEN ParamName(name)
    ELSE [cls |-> "ValueError", name |-> name]

\* Path.parse
PathParse(string) ==
    LET elements == Tail(separator_re_split(string))
        separators == EvenSlice(elements)
        parts == OddSlice(elements)
        nodes == [i \in 1..(IF Len(separators) < Len(parts) THEN Len(separators) ELSE Len(parts))
                      |-> NodeFor(separators[i], parts[i])]
    IN  IF ~(Len(elements) = 2 * Len(separators) /\ 2 * Len(separators) = 2 * Len(parts))
        THEN [status |-> "AssertionError", nodes |-> <<>>]
        ELSE IF \E i \in 1..Len(nodes) : nodes[i].cls = "ValueError"
        THEN [status |-> "ValueError", nodes |-> <<>>]
        ELSE [status |-> "ok", nodes |-> nodes]

Names == SeqsUpTo(NameChars, MaxNameLen)

PathNodes == {BrickName(n) : n \in Names} \cup {ParamName(n) : n \in Names}

Paths == SeqsUpTo(PathNodes, MaxPathLen)

Strings == SeqsUpTo(Chars, MaxStrLen)

\* str(p) for a Path p
StrOfPath ==
    /\ ppc = "start"
    /\ pathStr' = PathToStr(pathArg)
    /\ ppc' = "str"
    /\ UNCHANGED <<pathArg, strArg, parsed>>

\* Path.parse(str(p))
ParseOfStr ==
    /\ ppc = "str"
    /\ parsed' = PathParse(pathStr)
    /\ ppc' = "roundtrip"
    /\ UNCHANGED <<pathArg, strArg, pathStr>>

\* Path.parse(s) for a string s
ParseOfString ==
    /\ ppc = "start"
    /\ parsed' = PathParse(strArg)
    /\ ppc' = "parsed"
    /\ UNCHANGED <<pathArg, strArg, pathStr>>

PathInit ==
    /\ \/ pathArg \in Paths /\ strArg = <<>>
       \/ pathArg = <<>> /\ strArg \in Strings
    /\ pathStr = <<>>
    /\ parsed = [status |-> "none", nodes |-> <<>>]
    /\ ppc = "start"
    /\ GraphIdle /\ TreeIdle

PathNext ==
    \/ StrOfPath /\ UNCHANGED <<gvars, tvars>>
    \/ ParseOfStr /\ UNCHANGED <<gvars, tvars>>
    \/ ParseOfString /\ UNCHANGED <<gvars, tvars>>

SpecPath == PathInit /\ [][PathNext]_vars

\* the grammar of path strings: non-empty, starting with a separator, and a
\* parameter separator only in front of the final segment
WellFormed(string) ==
    /\ Len(string) > 0
    /\ string[1] \in {separator, param_separator}
    /\ \A i, j \in 1..Len(string) :
           (string[i] = param_separator /\ i < j) => string[j] \notin {separator, param_separator}

\* C5: Path.parse returns a Path only for strings of the grammar; for every
\* other string it raises an error.
C5_ParseRejectsMalformed ==
    (ppc = "parsed" /\ ~WellFormed(strArg)) => parsed.status # "ok"

\* C6: parse(str(p)) == p, with the same number of segments, the same names
\* in the same order and the same segment kind at every position.
C6_RoundTrip ==
    ppc = "roundtrip" =>
        /\ parsed.status = "ok"
        /\ PathEq(parsed.nodes, pathArg)
        /\ Len(parsed.nodes) = Len(pathArg)
        /\ \A i \in 1..Len(pathArg) :
               /\ parsed.nodes[i].name = pathArg[i].name
               /\ parsed.nodes[i].cls = pathArg[i].cls

\* a round trip of a path that mixes brick and parameter segments
C6_Witness ==
    /\ ppc = "roundtrip"
    /\ Len(pathArg) >= 2
    /\ \E i, j \in 1..Len(pathArg) :
           /\ pathArg[i].cls = "BrickName" /\ pathArg[j].cls = "ParamName"
           /\ pathArg[i].name # pathArg[j].name
    /\ parsed.status = "ok"

-----------------------------------------------------------------------------
(* The brick hierarchy (the interface the code reads: name, children, params) *)

Bricks == 1..NumBricks

Params == 1..NumParams

\* Python's None, where a brick is expected
None == 0

\* names of bricks and parameters
TreeNames == {<<c>> : c \in NameChars}

\* the elements of a set of numbers, in increasing order
RECURSIVE Ascending(_)
Ascending(S) ==
    IF S = {} THEN <<>>
    ELSE LET m == CHOOSE x \in S : \A y \in S : x <= y
         IN  <<m>> \o Ascending(S \ {m})

\* brick.params: the parameters the brick owns
params(brick) == Ascending({p \in Params : param_owner[p] = brick})

\* the hierarchies: the children of a brick have larger numbers (no cycles); a
\* brick may be a child of several bricks
RECURSIVE ChildrenOn(_)
ChildrenOn(n) ==
    IF n = 0 THEN {<<>>}
    ELSE {Append(c, Ascending(S)) : c \in ChildrenOn(n - 1), S \in SUBSET ((n + 1)..NumBricks)}

\* the lists of top-level bricks: non-empty, no brick twice
RootLists ==
    {r \in SeqsUpTo(Bricks, MaxRoots) :
        /\ Len(r) > 0
        /\ \A i, j \in 1..Len(r) : r[i] = r[j] => i = j}

-----------------------------------------------------------------------------
(* OrderedDict, as the sequence of its (key, value) items *)

\* d[key] = value for a dictionary keyed by Path objects (Path.__eq__ and
\* Path.__hash__): an existing key keeps its place and takes the new value
RECURSIVE OdPutPath(_, _, _)
OdPutPath(od, key, value) ==
    IF od = <<>> THEN <<[key |-> key, value |-> value]>>
    ELSE IF PathEq(Head(od).key, key)
         THEN <<[key |-> Head(od).key, value |-> value]>> \o Tail(od)
         ELSE <<Head(od)>> \o OdPutPath(Tail(od), key, value)

\* d[key] = value for a dictionary keyed by strings
RECURSIVE OdPutStr(_, _, _)
OdPutStr(od, key, value) ==
    IF od = <<>> THEN <<[key |-> key, value |-> value]>>
    ELSE IF Head(od).key = key
         THEN <<[key |-> key, value |-> value]>> \o Tail(od)
         ELSE <<Head(od)>> \o OdPutStr(Tail(od), key, value)

\* OrderedDict(items) for Path keys: the items put one after the other
RECURSIVE OdFromItems(_, _)
OdFromItems(od, items) ==
    IF items = <<>> THEN od
    ELSE OdFromItems(OdPutPath(od, Head(items).key, Head(items).value), Tail(items))

\* OrderedDict((str(key), value) for key, value in result.items())
RECURSIVE OdStrKeys(_, _)
OdStrKeys(od, items) ==
    IF items = <<>> THEN od
    ELSE OdStrKeys(OdPutStr(od, PathToStr(Head(items).key), Head(items).value), Tail(items))

-----------------------------------------------------------------------------
(* Selector.get_params *)

\* the param_name argument: None, or a name
NoFilter == [given |-> FALSE, name |-> <<>>]

Filter(name) == [given |-> TRUE, name |-> name]

\* "not param_name or param.name == param_name": None and the empty string
\* are both false in a condition
Keeps(filter, p) ==
    \/ ~filter.given
    \/ filter.name = <<>>
    \/ param_name[p] = filter.name

\* the first statement of recursion(brick): the brick's own parameters, as
\* items keyed by Path([BrickName(brick.name), ParamName(param.name)])
OwnItems(brick, filter) ==
    LET ps == params(brick)
        kept == SelectSeq(ps, LAMBDA p : Keeps(filter, p))
    IN  [i \in 1..Len(kept) |->
            [key |-> <<BrickName(brick_name[brick]), ParamName(param_name[kept[i]])>>,
             value |-> kept[i]]]

\* result[new_path] = param for every item of a child's mapping, with
\* new_path = Path([BrickName(brick.name)]) + path
RECURSIVE MergeChild(_, _, _)
MergeChild(od, brick, items) ==
    IF items = <<>> THEN od
    ELSE MergeChild(OdPutPath(od,
                              PathAdd(<<BrickName(brick_name[brick])>>, Head(items).key),
                              Head(items).value),
                    brick, Tail(items))

\* recursion(brick) of Selector.get_params
RECURSIVE get_params_recursion(_, _)
RECURSIVE MergeChildren(_, _, _, _)
MergeChildren(od, brick, kids, filter) ==
    IF kids = <<>> THEN od
    ELSE MergeChildren(MergeChild(od, brick, get_params_recursion(Head(kids), filter)),
                       brick, Tail(kids), filter)

get_params_recursion(brick, filter) ==
    MergeChildren(OdFromItems(<<>>, OwnItems(brick, filter)), brick, children[brick], filter)

\* blocks.utils.dict_union: the union of mappings with disjoint keys; a key
\* two mappings share is an error
RECURSIVE dict_union(_, _)
dict_union(acc, dicts) ==
    IF dicts = <<>> THEN [status |-> "ok", items |-> acc]
    ELSE IF \E i \in 1..Len(acc), j \in 1..Len(Head(dicts)) :
                PathEq(acc[i].key, Head(dicts)[j].key)
         THEN [status |-> "DuplicatePathError", items |-> <<>>]
         ELSE dict_union(acc \o Head(dicts), Tail(dicts))

NoResult == [type |-> "none", bricks |-> <<>>, items |-> <<>>, values |-> <<>>]

Failure(error) == [type |-> error, bricks |-> <<>>, items |-> <<>>, values |-> <<>>]

\* Selector(bricks).get_params(param_name)
get_params(bricks, filter) ==
    IF \E i \in 1..Len(bricks) : bricks[i] = None
    THEN Failure("AttributeError")   \* recursion(None) reads None.name
    ELSE LET merged == dict_union(<<>>, [i \in 1..Len(bricks) |->
                                            get_params_recursion(bricks[i], filter)])
         IN  IF merged.status # "ok" THEN Failure(merged.status)
             ELSE [type |-> "dict", bricks |-> <<>>,
                   items |-> OdStrKeys(<<>>, merged.items), values |-> <<>>]

-----------------------------------------------------------------------------
(* Selector.select *)

\* "for match in matching_bricks: if not match in next_bricks: append"
RECURSIVE AppendNew(_, _)
AppendNew(next_bricks, matches) ==
    IF matches = <<>> THEN next_bricks
    ELSE AppendNew(IF \E i \in 1..Len(next_bricks) : next_bricks[i] = Head(matches)
                   THEN next_bricks
                   ELSE Append(next_bricks, Head(matches)),
                   Tail(matches))

\* "brick.children if brick else self.bricks"
ChildrenOrRoots(brick, self_bricks) ==
    IF brick # None THEN children[brick] ELSE self_bricks

\* the loop over current_bricks for one BrickName node
RECURSIVE NextBricks(_, _, _, _)
NextBricks(next_bricks, current_bricks, self_bricks, name) ==
    IF current_bricks = <<>> THEN next_bricks
    ELSE LET kids == ChildrenOrRoots(Head(current_bricks), self_bricks)
             matching_bricks == SelectSeq(kids, LAMBDA child : brick_name[child] = name)
         IN  NextBricks(AppendNew(next_bricks, matching_bricks),
                        Tail(current_bricks), self_bricks, name)

\* resolving a ParamName node on the Selector's own bricks
ParamFrontierRoots(current_bricks, self_bricks) == self_bricks

\* the frontier a ParamName node is resolved on: Selector(current_bricks)
ParamFrontier(current_bricks, self_bricks) == current_bricks

\* the frontier the loop starts with: current_bricks = [None]
InitialFrontier(self_bricks) == <<None>>

\* the loop of Selector.select over path.nodes, from node i on
RECURSIVE SelectLoop(_, _, _, _)
SelectLoop(self_bricks, nodes, i, current_bricks) ==
    IF i > Len(nodes)
    THEN [type |-> "Selector", bricks |-> current_bricks, items |-> <<>>, values |-> <<>>]
    ELSE IF nodes[i].cls = "ParamName"
    THEN LET got == get_params(ParamFrontier(current_bricks, self_bricks), Filter(nodes[i].name))
         IN  IF got.type # "dict" THEN got
             ELSE [type |-> "list", bricks |-> <<>>, items |-> <<>>,
                   values |-> [k \in 1..Len(got.items) |-> got.items[k].value]]
    ELSE SelectLoop(self_bricks, nodes, i + 1,
                    NextBricks(<<>>, current_bricks, self_bricks, nodes[i].name))

\* arguments of select: None, a str or a Path
NoPath == [t |-> "None", str |-> <<>>, nodes |-> <<>>]

StrArg(string) == [t |-> "str", str |-> string, nodes |-> <<>>]

PathObj(nodes) == [t |-> "Path", str |-> <<>>, nodes |-> nodes]

\* Selector(bricks).select(path) for a str or a Path
select(self_bricks, path) ==
    LET p == IF path.t = "str" THEN PathParse(path.str) ELSE [status |-> "ok", nodes |-> path.nodes]
    IN  IF p.status # "ok" THEN Failure(p.status)
        ELSE SelectLoop(self_bricks, p.nodes, 1, InitialFrontier(self_bricks))

\* "if path:" in Model.select: None and the empty string are false, a Path
\* object is true (Path defines neither __len__ nor __nonzero__)
Truthy(path) ==
    \/ path.t = "Path"
    \/ path.t = "str" /\ path.str # <<>>

\* Model.select
model_select(path) ==
    IF Truthy(path) THEN select(top_bricks, path)
    ELSE [type |-> "Selector", bricks |-> top_bricks, items |-> <<>>, values |-> <<>>]

\* Model.get_params: self.select().get_params()
model_get_params == get_params(model_select(NoPath).bricks, NoFilter)

-----------------------------------------------------------------------------
(* Calls on a Model and on a Selector over its top-level bricks *)

\* the paths handed to select: brick names, then possibly a parameter name
\* (which a string such as "/a." leaves empty)
SelPaths ==
    {[i \in 1..Len(chain) |-> BrickName(chain[i])] \o last :
        chain \in SeqsUpTo(TreeNames, MaxChain),
        last \in {<<>>} \cup {<<ParamName(n)>> : n \in TreeNames \cup {<<>>}}}

\* Model.select is given no path, a string, or the Path without segments
ModelSelArgs ==
    {NoPath, PathObj(<<>>)} \cup {StrArg(PathToStr(p)) : p \in SelPaths}

\* Selector.select is given a Path object, or the empty string
SelectorSelArgs ==
    {StrArg(<<>>)} \cup {PathObj(p) : p \in SelPaths}

\* model.select(path)
ModelSelect(path) ==
    /\ call.op = "none"
    /\ call' = [op |-> "Model.select", path |-> path, filter |-> NoFilter]
    /\ result' = model_select(path)
    /\ UNCHANGED <<brick_name, children, param_name, param_owner, top_bricks>>

\* Selector(top_bricks).select(path), for a str or a Path
SelectorSelect(path) ==
    /\ call.op = "none"
    /\ path.t # "None"
    /\ call' = [op |-> "Selector.select", path |-> path, filter |-> NoFilter]
    /\ result' = select(top_bricks, path)
    /\ UNCHANGED <<brick_name, children, param_name, param_owner, top_bricks>>

\* model.get_params()
ModelGetParams ==
    /\ call.op = "none"
    /\ call' = [op |-> "Model.get_params", path |-> NoPath, filter |-> NoFilter]
    /\ result' = model_get_params
    /\ UNCHANGED <<brick_name, children, param_name, param_owner, top_bricks>>

\* Selector(top_bricks).get_params(param_name)
SelectorGetParams(filter) ==
    /\ call.op = "none"
    /\ call' = [op |-> "Selector.get_params", path |-> NoPath, filter |-> filter]
    /\ result' = get_params(top_bricks, filter)
    /\ UNCHANGED <<brick_name, children, param_name, param_owner, top_bricks>>

\* a Model on an allocated hierarchy, no call made yet; parameters are
\* numbered in the order of their owners
TreeInit ==
    /\ brick_name \in [Bricks -> TreeNames]
    /\ children \in ChildrenOn(NumBricks)
    /\ param_name \in [Params -> TreeNames]
    /\ param_owner \in {o \in [Params -> Bricks] : \A p, q \in Params : p <= q => o[p] <= o[q]}
    /\ top_bricks \in RootLists
    /\ call = [op |-> "none", path |-> NoPath, filter |-> NoFilter]
    /\ result = NoResult
    /\ GraphIdle /\ PathIdle

TreeNext ==
    \/ \E path \in ModelSelArgs : ModelSelect(path) /\ UNCHANGED <<gvars, pvars>>
    \/ \E path \in SelectorSelArgs : SelectorSelect(path) /\ UNCHANGED <<gvars, pvars>>
    \/ ModelGetParams /\ UNCHANGED <<gvars, pvars>>
    \/ \E filter \in {NoFilter} \cup {Filter(n) : n \in TreeNames} :
           SelectorGetParams(filter) /\ UNCHANGED <<gvars, pvars>>

SpecTree == TreeInit /\ [][TreeNext]_vars

-----------------------------------------------------------------------------
(* Properties of selection and aggregation, stated on the hierarchy itself *)

\* a brick and its descendants
RECURSIVE Descendants(_)
Descendants(b) ==
    {b} \cup UNION {Descendants(children[b][i]) : i \in 1..Len(children[b])}

DescendantsOf(S) == UNION {Descendants(b) : b \in S}

Roots == Range(top_bricks)

\* the bricks a chain of names leads to, from the top-level bricks
RECURSIVE ReachedBy(_)
ReachedBy(chain) ==
    IF Len(chain) = 0 THEN {}
    ELSE IF Len(chain) = 1 THEN {b \in Roots : brick_name[b] = chain[1]}
    ELSE {c \in Bricks :
             /\ brick_name[c] = chain[Len(chain)]
             /\ \E b \in ReachedBy(SubSeq(chain, 1, Len(chain) - 1)) : c \in Range(children[b])}

\* the name chains of the ways down from brick b to brick t
RECURSIVE NameChains(_, _)
NameChains(b, t) ==
    (IF b = t THEN {<<brick_name[b]>>} ELSE {})
        \cup {<<brick_name[b]>> \o c : c \in UNION {NameChains(children[b][i], t) :
                                                       i \in 1..Len(children[b])}}

\* the full paths of parameter p counted from the bricks of S: the names down
\* to its owner, then its own name
FullPaths(S, p) ==
    {<<c, param_name[p]>> : c \in UNION {NameChains(b, param_owner[p]) : b \in S}}

\* two different parameters of P have a full path in common
Collision(S, P) ==
    \E p, q \in P : p # q /\ FullPaths(S, p) \cap FullPaths(S, q) # {}

NoDuplicates(seq) == \A i, j \in 1..Len(seq) : seq[i] = seq[j] => i = j

IsSelect == call.op \in {"Model.select", "Selector.select"}

\* the nodes of the path of the call
CallNodes ==
    IF call.path.t = "str" THEN PathParse(call.path.str).nodes ELSE call.path.nodes

\* a chain of brick names followed by a final parameter name
IsChainThenParam(nodes) ==
    /\ Len(nodes) >= 2
    /\ nodes[Len(nodes)].cls = "ParamName"
    /\ \A i \in 1..(Len(nodes) - 1) : nodes[i].cls = "BrickName"

ChainOf(nodes) == [i \in 1..(Len(nodes) - 1) |-> nodes[i].name]

LastName(nodes) == nodes[Len(nodes)].name

\* the call selects a parameter name under a chain of existing child names
ChainParamCall ==
    /\ IsSelect
    /\ IsChainThenParam(CallNodes)
    /\ ReachedBy(ChainOf(CallNodes)) # {}

\* the parameters called name that the bricks of S own
NamedIn(S, name) == {p \in Params : param_owner[p] \in S /\ param_name[p] = name}

C3_Candidates ==
    {p \in Params :
        /\ param_owner[p] \in DescendantsOf(ReachedBy(ChainOf(CallNodes)))
        /\ (LastName(CallNodes) = <<>> \/ param_name[p] = LastName(CallNodes))}

IsGetParams == call.op \in {"Model.get_params", "Selector.get_params"}

\* the parameters below the top-level bricks that pass the name filter of the call
GetParamsCandidates ==
    {p \in Params :
        /\ param_owner[p] \in DescendantsOf(Roots)
        /\ (call.filter.given => param_name[p] = call.filter.name)}

\* C4: get_params never resolves a key collision silently: when two distinct
\* parameters reachable from the selected bricks get the same full path, the
\* call fails and returns no mapping.
C4_CollisionIsAnError ==
    (IsGetParams /\ Collision(Roots, GetParamsCandidates)) => result.type # "dict"

\* C7: selecting with an empty path (no path, the empty string or a Path with
\* no segments), through Model.select or Selector.select, returns a Selector
\* whose bricks are the top-level bricks in their original order.
C7_EmptyPathSelectsRoots ==
    (/\ IsSelect
     /\ \/ call.path.t = "None"
        \/ call.path.t = "str" /\ call.path.str = <<>>
        \/ call.path.t = "Path" /\ call.path.nodes = <<>>)
        => /\ result.type = "Selector"
           /\ result.bricks = top_bricks

\* C8: when no two parameters get the same full path, Model.get_params() has
\* as many entries as there are distinct parameters reachable from the
\* top-level bricks, also when a brick is reachable from several roots or
\* parents.
C8_EntryCountIsParamCount ==
    (call.op = "Model.get_params" /\ ~Collision(Roots, GetParamsCandidates))
        => /\ result.type = "dict"
           /\ Len(result.items) = Cardinality(GetParamsCandidates)

\* C10: select on a well-formed path whose first segment is a parameter
\* segment completes without error and returns the parameters of that name
\* aggregated over the Selector's own bricks (taken where no two such
\* parameters share a path).
C10_LeadingParamSegment ==
    (/\ IsSelect
     /\ Len(CallNodes) = 1
     /\ CallNodes[1].cls = "ParamName"
     /\ CallNodes[1].name # <<>>
     /\ ~Collision(Roots, NamedIn(DescendantsOf(Roots), CallNodes[1].name)))
        => /\ result.type = "list"
           /\ Range(result.values) = NamedIn(DescendantsOf(Roots), CallNodes[1].name)

=============================================================================
